---- MODULE Spec2Model ----
(***************************************************************************)
(* Model of language_service/src/compilation.rs: the Compilation session   *)
(* (package_store, user_package_id, errors, kind), its two constructors    *)
(* (new, new_notebook), recompile, run_fir_passes, the position mapper     *)
(* and the cross-package item resolver.                                     *)
(*                                                                         *)
(* The front end (compile::compile, incremental::Compiler), the linter,    *)
(* the FIR lowering / capability pass, PackageStore and SourceMap live in  *)
(* other crates.  They are modelled as deterministic functions of their    *)
(* inputs over a small corpus of document contents.                        *)
(***************************************************************************)
EXTENDS Integers, Sequences, FiniteSets, TLC

VARIABLES
    package_store,    \* Compilation.package_store
    user_package_id,  \* Compilation.user_package_id
    errors,           \* Compilation.errors
    kind,             \* Compilation.kind
    pc,               \* position of the thread that constructs / recompiles the session
    caller,           \* who called the constructor that is running: "host" or "recompile"
    args,             \* arguments of the running (or last) constructor call
    loc,              \* locals of the running constructor / of recompile
    calls,            \* history: calls made to the external components by the running (or last) constructor
    built,            \* history: the configuration the live session was built with
    pre,              \* history: the session's three replaced fields when recompile was entered
    seen,             \* what a reader of the session last read (package_store, user_package_id, errors)
    result            \* what the last query (position mapper, resolver) returned

vars == <<package_store, user_package_id, errors, kind, pc, caller, args, loc,
          calls, built, pre, seen, result>>

----------------------------------------------------------------------------
(* Bounds of the model *)

\* longest list of sources / notebook cells handed to a constructor
MaxSources == 2
\* largest line number a client position carries
MaxLine == 2
\* largest column number a client position carries
MaxColumn == 4
\* how far past the end of the text the external position conversion may land
MaxOvershoot == 2
\* largest item index a client asks the resolver about
MaxItem == 2
\* largest package identifier a client asks the resolver about
MaxPackageId == 3

----------------------------------------------------------------------------
(* Values *)

\* Option<T>: None is the empty sequence, Some(x) the one-element sequence
None == <<>>
Some(x) == <<x>>

Profiles == {"Base", "Other", "Unrestricted"}
PackageTypes == {"Exe", "Lib"}
LintConfigs == {"Default", "AllowAll"}
Kinds == {"OpenProject", "Notebook"}

\* The corpus of document contents the sources are drawn from.
\*   Clean       compiles without any diagnostic
\*   TypeErr     has a compile error
\*   ExeOnlyErr  has a compile error only when compiled as an executable
\*   LintHit     compiles, and trips a lint rule unless the rule is allowed
\*   CapUse      compiles, and uses a capability no restricted profile has
Contents == {"Clean", "TypeErr", "ExeOnlyErr", "LintHit", "CapUse"}

\* Names of the documents / cells, by position in the list.
NameOf(i) == CASE i = 1 -> "a.qs" [] i = 2 -> "b.qs" [] i = 3 -> "c.qs" [] OTHER -> "z.qs"

RECURSIVE SeqsUpTo(_, _)
SeqsUpTo(S, n) ==
    IF n = 0 THEN {<<>>}
    ELSE LET shorter == SeqsUpTo(S, n - 1)
         IN shorter \cup {Append(s, x) : s \in {t \in shorter : Len(t) = n - 1}, x \in S}

\* The (name, contents) lists a host can pass.
SourceLists ==
    {[i \in 1..Len(cs) |-> [name |-> NameOf(i), contents |-> cs[i]]] :
        cs \in SeqsUpTo(Contents, MaxSources)}

\* the concatenation of a sequence of sequences
Concat(ss) ==
    LET upto[i \in 0..Len(ss)] == IF i = 0 THEN <<>> ELSE upto[i - 1] \o ss[i]
    IN upto[Len(ss)]

SelectIdx(s, P(_)) ==
    LET F[i \in 0..Len(s)] ==
            IF i = 0 THEN <<>> ELSE IF P(i) THEN Append(F[i - 1], i) ELSE F[i - 1]
    IN F[Len(s)]

----------------------------------------------------------------------------
(* Text: characters, their widths in each encoding *)

\* characters: "a" ASCII, "e" a two-byte character (one UTF-16 unit),
\* "g" a four-byte character (two UTF-16 units), "nl" a line feed
Chars(c) ==
    CASE c = "Clean"      -> <<"a", "nl", "e", "g">>
      [] c = "TypeErr"    -> <<>>
      [] c = "ExeOnlyErr" -> <<"g", "a">>
      [] c = "LintHit"    -> <<"a", "nl", "nl", "a">>
      [] c = "CapUse"     -> <<"e">>

Utf8Len(ch) == CASE ch = "e" -> 2 [] ch = "g" -> 4 [] OTHER -> 1
Utf16Len(ch) == IF ch = "g" THEN 2 ELSE 1

\* the number of UTF-8 bytes of a text
ByteLen(cs) ==
    LET upto[i \in 0..Len(cs)] == IF i = 0 THEN 0 ELSE upto[i - 1] + Utf8Len(cs[i])
    IN upto[Len(cs)]

\* source.contents.len()
ContentsLen(c) == ByteLen(Chars(c))

----------------------------------------------------------------------------
(* SourceMap: named texts laid out in one flat address space *)

\* SourceMap::push: the next source starts one past the end of the last one
NextOffset(sm) ==
    IF sm = <<>> THEN 0
    ELSE sm[Len(sm)].offset + ContentsLen(sm[Len(sm)].contents) + 1

SourceMapPush(sm, name, contents) ==
    Append(sm, [name |-> name, contents |-> contents, offset |-> NextOffset(sm)])

\* SourceMap::new(sources, None)
SourceMapNew(srcs) ==
    LET pushed[i \in 0..Len(srcs)] ==
            IF i = 0 THEN <<>>
            ELSE SourceMapPush(pushed[i - 1], srcs[i].name, srcs[i].contents)
    IN pushed[Len(srcs)]

\* SourceMap::find_by_name: the first source of that name
FindByName(sm, name) ==
    LET hits == SelectIdx(sm, LAMBDA i : sm[i].name = name)
    IN IF hits = <<>> THEN None ELSE Some(sm[hits[1]])

----------------------------------------------------------------------------
(* PackageStore: the units in the order of their identifiers (0, 1, 2, ...) *)

\* the items a library package declares
LibItems(tag) == [i \in 1..2 |-> [package |-> tag, decl |-> i]]

\* compile::core()
CoreUnit == [tag |-> "core", target |-> "Core", sources |-> <<>>, items |-> LibItems("core")]
\* compile::std(&package_store, target_profile.into())
StdUnit(target_profile) ==
    [tag |-> "std", target |-> target_profile, sources |-> <<>>, items |-> LibItems("std")]

\* PackageStore::new(core): core gets PackageId::CORE = 0
PackageStoreNew(core) == <<core>>
\* PackageStore::insert: the unit gets the next identifier, which is returned
StoreInsert(store, unit) == [store |-> Append(store, unit), id |-> Len(store)]
\* PackageStore::get
StoreGet(store, id) == IF id + 1 \in DOMAIN store THEN Some(store[id + 1]) ELSE None

----------------------------------------------------------------------------
(* The external components, as deterministic functions of their inputs *)

Diag(k, i) == [kind |-> k, source |-> i]

\* the errors the front end reports for one source, the i-th of its package
CompileErrorsOf(contents, i, package_type) ==
    IF contents = "TypeErr" \/ (contents = "ExeOnlyErr" /\ package_type = "Exe")
    THEN <<Diag("Compile", i)>> ELSE <<>>

\* the items the front end produces for one source, the i-th of its package
ItemsOf(contents, i) ==
    IF contents = "TypeErr" THEN <<>> ELSE <<[package |-> "user", decl |-> i]>>

\* compile::compile(store, [std], source_map, package_type, ...): (unit, errors)
compile(source_map, package_type, target_profile) ==
    [unit   |-> [tag     |-> "user",
                 target  |-> target_profile,
                 sources |-> source_map,
                 items   |-> Concat([i \in 1..Len(source_map) |->
                                        ItemsOf(source_map[i].contents, i)])],
     errors |-> Concat([i \in 1..Len(source_map) |->
                           CompileErrorsOf(source_map[i].contents, i, package_type)])]

\* qsc::linter::run_lints(unit, Some(lints_config)), each finding wrapped as
\* ErrorKind::Lint by WithSource::from_map
run_lints(unit, lints_config) ==
    IF lints_config = "AllowAll" THEN <<>>
    ELSE Concat([i \in 1..Len(unit.sources) |->
                    IF unit.sources[i].contents = "LintHit"
                    THEN <<Diag("Lint", i)>> ELSE <<>>])

\* qsc::lower_hir_to_fir followed by PassContext::run_fir_passes_on_fir:
\* the capability violations (empty for Ok)
run_fir_passes_on_fir(store, package_id, target_profile) ==
    LET unit == store[package_id + 1]
    IN IF target_profile = "Unrestricted" THEN <<>>
       ELSE Concat([i \in 1..Len(unit.sources) |->
                       IF unit.sources[i].contents = "CapUse"
                       THEN <<Diag("Pass", i)>> ELSE <<>>])

----------------------------------------------------------------------------
(* run_fir_passes *)

\* faulty variant: only compile errors keep the check from running
run_fir_passes_despite_lints(errs, target_profile, store, package_id, unit) ==
    IF \E i \in DOMAIN errs : errs[i].kind = "Compile"
    THEN [errors |-> errs, ran |-> FALSE, out |-> <<>>]
    ELSE IF target_profile = "Base" THEN [errors |-> errs, ran |-> FALSE, out |-> <<>>]
    ELSE IF target_profile = "Unrestricted" THEN [errors |-> errs, ran |-> FALSE, out |-> <<>>]
    ELSE LET caps_errors == run_fir_passes_on_fir(store, package_id, target_profile)
         IN [errors |-> errs \o caps_errors, ran |-> TRUE, out |-> caps_errors]

\* faulty variant: the check runs whatever the list holds
run_fir_passes_ungated(errs, target_profile, store, package_id, unit) ==
    IF target_profile = "Base" THEN [errors |-> errs, ran |-> FALSE, out |-> <<>>]
    ELSE IF target_profile = "Unrestricted" THEN [errors |-> errs, ran |-> FALSE, out |-> <<>>]
    ELSE LET caps_errors == run_fir_passes_on_fir(store, package_id, target_profile)
         IN [errors |-> errs \o caps_errors, ran |-> TRUE, out |-> caps_errors]

\* run_fir_passes(errors, target_profile, package_store, package_id, unit):
\* the list it leaves in `errors`, whether it lowered and checked the
\* package, and what the check reported
run_fir_passes(errs, target_profile, store, package_id, unit) ==
    IF errs # <<>> THEN [errors |-> errs, ran |-> FALSE, out |-> <<>>]
    ELSE IF target_profile = "Base" THEN [errors |-> errs, ran |-> FALSE, out |-> <<>>]
    ELSE IF target_profile = "Unrestricted" THEN [errors |-> errs, ran |-> FALSE, out |-> <<>>]
    ELSE LET caps_errors == run_fir_passes_on_fir(store, package_id, target_profile)
         IN [errors |-> errs \o caps_errors, ran |-> TRUE, out |-> caps_errors]

----------------------------------------------------------------------------
(* State *)

EmptyUnit(target_profile) ==
    [tag |-> "user", target |-> target_profile, sources |-> <<>>, items |-> <<>>]

LocInit == [store |-> <<>>, unit |-> EmptyUnit("Base"), errs |-> <<>>, package_id |-> 0,
            i |-> 0, ret |-> None]

\* one call of an external component: the diagnostics list when it was
\* called, what the component reported, the list once the code had dealt
\* with the report, and for a notebook cell its name and the number of cells
\* the compiler had folded in when it was called
Call(op, before, out, after, cell, folded) ==
    [op |-> op, before |-> before, out |-> out, after |-> after, cell |-> cell,
     folded |-> folded]

\* the three fields recompile replaces
Snapshot(store, id, errs) == [package_store |-> store, user_package_id |-> id, errors |-> errs]

Config(a, by) == [package_type |-> a.package_type, target_profile |-> a.target_profile,
                  lints_config |-> a.lints_config, by |-> by]

ArgsSet ==
    [kind : {"OpenProject"}, sources : SourceLists, package_type : PackageTypes,
     target_profile : Profiles, lints_config : LintConfigs]
    \cup
    [kind : {"Notebook"}, sources : SourceLists, package_type : {"Lib"},
     target_profile : Profiles, lints_config : LintConfigs]

\* The host calls Compilation::new or Compilation::new_notebook.
Init ==
    /\ args \in ArgsSet
    /\ pc = IF args.kind = "OpenProject" THEN "new_compile" ELSE "nb_init"
    /\ caller = "host"
    /\ package_store = <<>>
    /\ user_package_id = 0
    /\ errors = <<>>
    /\ kind = "None"
    /\ loc = LocInit
    /\ calls = <<>>
    /\ built = None
    /\ pre = None
    /\ seen = None
    /\ result = None

\* a session has been returned to the host
Live == built # None

\* `return Self { .. }`: to the host, which then owns the session, or to recompile
Deliver(ret, k) ==
    IF caller = "host"
    THEN /\ package_store' = ret.package_store
         /\ user_package_id' = ret.user_package_id
         /\ errors' = ret.errors
         /\ kind' = k
         /\ built' = Some(Config(args, "host"))
         /\ pre' = Some(ret)
         /\ loc' = LocInit
         /\ pc' = "idle"
    ELSE /\ loc' = [LocInit EXCEPT !.ret = Some(ret)]
         /\ pc' = "rc_store"
         /\ UNCHANGED <<package_store, user_package_id, errors, kind, built, pre>>

----------------------------------------------------------------------------
(* Compilation::new *)

\* faulty variant: the standard library is never inserted
NewStoreNoStd(target_profile) == PackageStoreNew(CoreUnit)

\* faulty variant: a rebuild goes on with the store of the session
NewStdStoreReused(target_profile) ==
    IF caller = "recompile" THEN package_store
    ELSE StoreInsert(PackageStoreNew(CoreUnit), StdUnit(target_profile)).store

\* PackageStore::new(compile::core()) and the insertion of compile::std
NewStdStore(target_profile) ==
    StoreInsert(PackageStoreNew(CoreUnit), StdUnit(target_profile)).store

\* the source map, the store, and compile::compile
NewCompile ==
    /\ pc = "new_compile"
    /\ \E source_map \in {SourceMapNew(args.sources)} :
       LET r == compile(source_map, args.package_type, args.target_profile)
       IN /\ loc' = [loc EXCEPT !.store = NewStdStore(args.target_profile),
                                !.unit = r.unit, !.errs = r.errors]
          /\ calls' = Append(calls, Call("compile", <<>>, r.errors, r.errors, "", 0))
    /\ pc' = "new_lint1"
    /\ UNCHANGED <<package_store, user_package_id, errors, kind, caller, args, built,
                   pre, seen, result>>

\* `if errors.is_empty() { run_lints ...; errors.extend(lints) }`
NewLint1 ==
    /\ pc = "new_lint1"
    /\ IF loc.errs = <<>>
       THEN LET lints == run_lints(loc.unit, args.lints_config)
            IN /\ loc' = [loc EXCEPT !.errs = loc.errs \o lints]
               /\ calls' = Append(calls, Call("run_lints", loc.errs, lints,
                                              loc.errs \o lints, "", 0))
       ELSE UNCHANGED <<loc, calls>>
    /\ pc' = "new_insert"
    /\ UNCHANGED <<package_store, user_package_id, errors, kind, caller, args, built,
                   pre, seen, result>>

\* `package_store.insert(unit)` and `package_store.get(package_id).expect(..)`
NewInsert ==
    /\ pc = "new_insert"
    /\ LET r   == StoreInsert(loc.store, loc.unit)
           got == StoreGet(r.store, r.id)
       IN IF got = None
          THEN /\ pc' = "panic"
               /\ UNCHANGED loc
          ELSE /\ loc' = [loc EXCEPT !.store = r.store, !.package_id = r.id, !.unit = got[1]]
               /\ pc' = "new_fir"
    /\ UNCHANGED <<package_store, user_package_id, errors, kind, caller, args, calls,
                   built, pre, seen, result>>

\* the call of run_fir_passes
NewFir ==
    /\ pc = "new_fir"
    /\ LET r == run_fir_passes(loc.errs, args.target_profile, loc.store, loc.package_id, loc.unit)
       IN /\ loc' = [loc EXCEPT !.errs = r.errors]
          /\ calls' = IF r.ran
                      THEN Append(calls, Call("fir", loc.errs, r.out, r.errors, "", 0))
                      ELSE calls
    /\ pc' = "new_lint2"
    /\ UNCHANGED <<package_store, user_package_id, errors, kind, caller, args, built,
                   pre, seen, result>>

\* faulty variant: the second lint run is gated like the first
NewLint2Gated ==
    /\ pc = "new_lint2"
    /\ IF loc.errs = <<>>
       THEN LET lints == run_lints(loc.unit, args.lints_config)
            IN /\ loc' = [loc EXCEPT !.errs = loc.errs \o lints]
               /\ calls' = Append(calls, Call("run_lints", loc.errs, lints,
                                              loc.errs \o lints, "", 0))
       ELSE UNCHANGED <<loc, calls>>
    /\ pc' = "new_ret"
    /\ UNCHANGED <<package_store, user_package_id, errors, kind, caller, args, built,
                   pre, seen, result>>

\* the second `run_lints`, each finding pushed
NewLint2 ==
    /\ pc = "new_lint2"
    /\ LET lints == run_lints(loc.unit, args.lints_config)
       IN /\ loc' = [loc EXCEPT !.errs = loc.errs \o lints]
          /\ calls' = Append(calls, Call("run_lints", loc.errs, lints,
                                         loc.errs \o lints, "", 0))
    /\ pc' = "new_ret"
    /\ UNCHANGED <<package_store, user_package_id, errors, kind, caller, args, built,
                   pre, seen, result>>

NewReturn ==
    /\ pc = "new_ret"
    /\ Deliver(Snapshot(loc.store, loc.package_id, loc.errs), "OpenProject")
    /\ UNCHANGED <<caller, args, calls, seen, result>>

----------------------------------------------------------------------------
(* Compilation::new_notebook *)

\* incremental::Compiler::new(include_std, SourceMap::default(), PackageType::Lib, ..):
\* a store holding core, std when asked for, and the open (user) package
CompilerNew(include_std, target_profile) ==
    LET core == PackageStoreNew(CoreUnit)
        base == IF include_std THEN StoreInsert(core, StdUnit(target_profile)).store ELSE core
        r    == StoreInsert(base, EmptyUnit(target_profile))
    IN [store |-> r.store, package_id |-> r.id]

\* faulty variant: the closure forgets to extend the list
accumulate_errors_drop(errs, cell_errors) == [errors |-> errs, result |-> "Ok"]

\* faulty variant: the closure fails fast on a cell with errors
accumulate_errors_failfast(errs, cell_errors) ==
    [errors |-> errs \o cell_errors, result |-> IF cell_errors = <<>> THEN "Ok" ELSE "Err"]

\* the closure handed to compile_fragments: `errors.extend(cell_errors); Ok(())`
accumulate_errors(errs, cell_errors) == [errors |-> errs \o cell_errors, result |-> "Ok"]

\* Compiler::compile_fragments, which fails only when the closure does,
\* followed by Compiler::update(increment): the open package after the cell
\* is folded in
FoldCell(unit, cell) ==
    [unit EXCEPT !.sources = SourceMapPush(unit.sources, cell.name, cell.contents),
                 !.items   = unit.items \o ItemsOf(cell.contents, Len(unit.sources) + 1)]

\* the cell the loop takes at its i-th iteration
NextCell(cells, i) == cells[i]

NbInit ==
    /\ pc = "nb_init"
    /\ LET c == CompilerNew(TRUE, args.target_profile)
       IN loc' = [loc EXCEPT !.store = c.store, !.package_id = c.package_id,
                             !.errs = <<>>, !.i = 1]
    /\ pc' = "nb_cell"
    /\ UNCHANGED <<package_store, user_package_id, errors, kind, caller, args, calls,
                   built, pre, seen, result>>

\* one iteration of `for (name, contents) in cells`
NbCell ==
    /\ pc = "nb_cell"
    /\ loc.i <= Len(args.sources)
    /\ LET cell == NextCell(args.sources, loc.i)
           unit == loc.store[loc.package_id + 1]
           cell_errors == CompileErrorsOf(cell.contents, Len(unit.sources) + 1, "Lib")
           acc  == accumulate_errors(loc.errs, cell_errors)
       IN IF acc.result # "Ok"
          THEN /\ pc' = "panic"
               /\ loc' = [loc EXCEPT !.errs = acc.errors]
               /\ UNCHANGED calls
          ELSE /\ loc' = [loc EXCEPT !.store[loc.package_id + 1] = FoldCell(unit, cell),
                                     !.errs = acc.errors, !.i = loc.i + 1]
               /\ calls' = Append(calls, Call("compile_fragments", loc.errs, cell_errors,
                                              acc.errors, cell.name, Len(unit.sources)))
               /\ pc' = "nb_cell"
    /\ UNCHANGED <<package_store, user_package_id, errors, kind, caller, args, built,
                   pre, seen, result>>

\* the loop is over: `compiler.into_package_store()` and `get(package_id).expect(..)`
NbIntoStore ==
    /\ pc = "nb_cell"
    /\ loc.i > Len(args.sources)
    /\ LET got == StoreGet(loc.store, loc.package_id)
       IN IF got = None
          THEN /\ pc' = "panic"
               /\ UNCHANGED loc
          ELSE /\ loc' = [loc EXCEPT !.unit = got[1]]
               /\ pc' = "nb_lint"
    /\ UNCHANGED <<package_store, user_package_id, errors, kind, caller, args, calls,
                   built, pre, seen, result>>

\* `if errors.is_empty() { run_lints ...; errors.extend(lints) }`
NbLint ==
    /\ pc = "nb_lint"
    /\ IF loc.errs = <<>>
       THEN LET lints == run_lints(loc.unit, args.lints_config)
            IN /\ loc' = [loc EXCEPT !.errs = loc.errs \o lints]
               /\ calls' = Append(calls, Call("run_lints", loc.errs, lints,
                                              loc.errs \o lints, "", 0))
       ELSE UNCHANGED <<loc, calls>>
    /\ pc' = "nb_fir"
    /\ UNCHANGED <<package_store, user_package_id, errors, kind, caller, args, built,
                   pre, seen, result>>

NbFir ==
    /\ pc = "nb_fir"
    /\ LET r == run_fir_passes(loc.errs, args.target_profile, loc.store, loc.package_id, loc.unit)
       IN /\ loc' = [loc EXCEPT !.errs = r.errors]
          /\ calls' = IF r.ran
                      THEN Append(calls, Call("fir", loc.errs, r.out, r.errors, "", 0))
                      ELSE calls
    /\ pc' = "nb_ret"
    /\ UNCHANGED <<package_store, user_package_id, errors, kind, caller, args, built,
                   pre, seen, result>>

NbReturn ==
    /\ pc = "nb_ret"
    /\ Deliver(Snapshot(loc.store, loc.package_id, loc.errs), "Notebook")
    /\ UNCHANGED <<caller, args, calls, seen, result>>

----------------------------------------------------------------------------
(* user_unit, recompile, and a reader of the session *)

\* self.package_store.get(self.user_package_id)   (.expect(..) by the caller)
user_unit == StoreGet(package_store, user_package_id)

\* faulty variant: the sources are collected in reverse order
RecompileSourcesReversed(unit) ==
    [i \in 1..Len(unit.sources) |->
        [name     |-> unit.sources[Len(unit.sources) + 1 - i].name,
         contents |-> unit.sources[Len(unit.sources) + 1 - i].contents]]

\* `self.user_unit().sources.iter().map(|source| (name.clone(), contents.clone()))`
RecompileSources(unit) ==
    [i \in 1..Len(unit.sources) |->
        [name |-> unit.sources[i].name, contents |-> unit.sources[i].contents]]

\* faulty variant: every session is rebuilt on the batch path
RecompilePathBatchOnly(k) == "new_compile"

\* `match self.kind { OpenProject => Self::new(..), Notebook => Self::new_notebook(..) }`
RecompilePath(k) == IF k = "OpenProject" THEN "new_compile" ELSE "nb_init"

\* recompile(&mut self, ..) up to the constructor call it makes
RecompileStart(package_type, target_profile, lints_config) ==
    /\ pc = "idle"
    /\ IF user_unit = None
       THEN /\ pc' = "panic"
            /\ UNCHANGED <<args, caller, calls>>
       ELSE /\ args' = [kind |-> kind, sources |-> RecompileSources(user_unit[1]),
                        package_type |-> package_type, target_profile |-> target_profile,
                        lints_config |-> lints_config]
            /\ caller' = "recompile"
            /\ calls' = <<>>
            /\ pc' = RecompilePath(kind)
    /\ seen' = None
    /\ UNCHANGED <<package_store, user_package_id, errors, kind, loc, built, pre, result>>

\* `self.package_store = new.package_store;`
RcStore ==
    /\ pc = "rc_store"
    /\ package_store' = loc.ret[1].package_store
    /\ pc' = "rc_id"
    /\ UNCHANGED <<user_package_id, errors, kind, caller, args, loc, calls, built, pre,
                   seen, result>>

\* `self.user_package_id = new.user_package_id;`
RcId ==
    /\ pc = "rc_id"
    /\ user_package_id' = loc.ret[1].user_package_id
    /\ pc' = "rc_errors"
    /\ UNCHANGED <<package_store, errors, kind, caller, args, loc, calls, built, pre,
                   seen, result>>

\* `self.errors = new.errors;` and the return, which ends the &mut borrow
RcErrors ==
    /\ pc = "rc_errors"
    /\ errors' = loc.ret[1].errors
    /\ built' = Some(Config(args, "recompile"))
    /\ pre' = loc.ret
    /\ loc' = LocInit
    /\ caller' = "host"
    /\ pc' = "idle"
    /\ UNCHANGED <<package_store, user_package_id, kind, args, calls, seen, result>>

\* faulty variant: the session can be read while recompile runs
ReadableAnytime == Live

\* recompile takes `&mut self`: while it runs no other reference to the
\* session exists, so the session can be read only between calls
Readable == Live /\ pc = "idle"

\* a holder of `&Compilation` reads the three fields
Observe ==
    /\ Readable
    /\ seen' = Some(Snapshot(package_store, user_package_id, errors))
    /\ UNCHANGED <<package_store, user_package_id, errors, kind, pc, caller, args, loc,
                   calls, built, pre, result>>

----------------------------------------------------------------------------
(* Position mapper *)

Encodings == {"Utf8", "Utf16"}
Positions == [line : 0..MaxLine, column : 0..MaxColumn]

\* the width of a character in the units of an encoding
UnitLen(encoding, ch) == IF encoding = "Utf8" THEN Utf8Len(ch) ELSE Utf16Len(ch)

\* the walk of Position::to_utf8_byte_offset over the text: k is the next
\* character, (line, column) its position in the client's encoding, byte its
\* byte offset.  in_text says the position was found in the text.
RECURSIVE Walk(_, _, _, _, _, _, _)
Walk(chars, k, line, column, byte, position, encoding) ==
    IF line = position.line /\ column >= position.column
    THEN [offset |-> byte, in_text |-> TRUE, at_end |-> FALSE]
    ELSE IF k > Len(chars)
    THEN [offset |-> byte, in_text |-> FALSE, at_end |-> TRUE]
    ELSE IF chars[k] = "nl"
    THEN IF line = position.line
         THEN [offset |-> byte, in_text |-> FALSE, at_end |-> FALSE]
         ELSE Walk(chars, k + 1, line + 1, 0, byte + 1, position, encoding)
    ELSE Walk(chars, k + 1, line, column + UnitLen(encoding, chars[k]),
              byte + Utf8Len(chars[k]), position, encoding)

\* Position::to_utf8_byte_offset(encoding, contents).  For a position the
\* text does not reach, the conversion may land up to `overshoot` bytes past
\* the end of the text (the document is out of sync with the client's view).
to_utf8_byte_offset(position, encoding, contents, overshoot) ==
    LET w == Walk(Chars(contents), 1, 0, 0, 0, position, encoding)
    IN [offset  |-> IF w.at_end THEN w.offset + overshoot ELSE w.offset,
        in_text |-> w.in_text]

\* faulty variant: the offset is not clamped
NoClamp(offset, len) == offset

\* `if offset > len { offset = len; }`
ClampOffset(offset, len) == IF offset > len THEN len ELSE offset

\* faulty variant: the base offset of the source is not added
AddBaseForgotten(base, offset) == offset

\* `source.offset + offset`
AddBase(base, offset) == base + offset

Panicked(op) == [op |-> op, panicked |-> TRUE]

\* faulty variant: a position past the end of the document is a failure
position_to_offset_strict(source_name, source_position, position_encoding, overshoot) ==
    IF user_unit = None THEN Panicked("source_position_to_package_offset")
    ELSE LET source == FindByName(user_unit[1].sources, source_name)
         IN IF source = None THEN Panicked("source_position_to_package_offset")
            ELSE LET conv == to_utf8_byte_offset(source_position, position_encoding,
                                                 source[1].contents, overshoot)
                     len  == ContentsLen(source[1].contents)
                 IN IF conv.offset > len
                    THEN Panicked("source_position_to_package_offset")
                    ELSE [op |-> "source_position_to_package_offset", panicked |-> FALSE,
                          source_name |-> source_name, position |-> source_position,
                          encoding |-> position_encoding, in_text |-> conv.in_text,
                          converted |-> conv.offset,
                          out |-> AddBase(source[1].offset, conv.offset)]

source_position_to_package_offset(source_name, source_position, position_encoding, overshoot) ==
    IF user_unit = None THEN Panicked("source_position_to_package_offset")
    ELSE LET source == FindByName(user_unit[1].sources, source_name)
         IN IF source = None THEN Panicked("source_position_to_package_offset")
            ELSE LET conv == to_utf8_byte_offset(source_position, position_encoding,
                                                 source[1].contents, overshoot)
                     len  == ContentsLen(source[1].contents)
                 IN [op |-> "source_position_to_package_offset", panicked |-> FALSE,
                     source_name |-> source_name, position |-> source_position,
                     encoding |-> position_encoding, in_text |-> conv.in_text,
                     converted |-> conv.offset,
                     out |-> AddBase(source[1].offset, ClampOffset(conv.offset, len))]

\* Span { lo, hi } of a span's end points
Span(lo, hi) == [lo |-> lo, hi |-> hi]

package_span_of_source(source_name) ==
    IF user_unit = None THEN Panicked("package_span_of_source")
    ELSE LET source == FindByName(user_unit[1].sources, source_name)
         IN IF source = None THEN Panicked("package_span_of_source")
            ELSE [op |-> "package_span_of_source", panicked |-> FALSE,
                  source_name |-> source_name,
                  out |-> Span(source[1].offset,
                               source[1].offset + ContentsLen(source[1].contents))]

----------------------------------------------------------------------------
(* Cross-package resolver *)

PackageIds == 0..MaxPackageId
ItemIds == [package : {None} \cup {Some(p) : p \in PackageIds}, item : 0..MaxItem]

\* faulty variant: the package of the reference is ignored
PickPackageLocal(package, local_package_id) == local_package_id

\* `item_id.package.unwrap_or(local_package_id)`
PickPackage(package, local_package_id) ==
    IF package = None THEN local_package_id ELSE package[1]

\* faulty variant: the reference is returned as it was given
resolve_item_keeps_reference(local_package_id, item_id) ==
    LET package_id == PickPackage(item_id.package, local_package_id)
        unit       == StoreGet(package_store, package_id)
    IN IF unit = None THEN Panicked("resolve_item")
       ELSE IF item_id.item + 1 \notin DOMAIN unit[1].items THEN Panicked("resolve_item")
       ELSE [op |-> "resolve_item", panicked |-> FALSE,
             item |-> unit[1].items[item_id.item + 1],
             package |-> unit[1],
             item_id |-> item_id]

resolve_item(local_package_id, item_id) ==
    LET package_id == PickPackage(item_id.package, local_package_id)
        unit       == StoreGet(package_store, package_id)
    IN IF unit = None THEN Panicked("resolve_item")
       ELSE IF item_id.item + 1 \notin DOMAIN unit[1].items THEN Panicked("resolve_item")
       ELSE [op |-> "resolve_item", panicked |-> FALSE,
             item |-> unit[1].items[item_id.item + 1],
             package |-> unit[1],
             item_id |-> [package |-> Some(package_id), item |-> item_id.item]]

resolve_item_relative_to_user_package(item_id) == resolve_item(user_package_id, item_id)

\* hir::Res: an error, a local variable, or an item
Resolutions ==
    {[tag |-> "Err"], [tag |-> "Local"]} \cup {[tag |-> "Item", item_id |-> i] : i \in ItemIds}

\* faulty variant: a resolution that is not an item is looked up as item 0
resolve_item_res_lenient(local_package_id, res) ==
    LET r == resolve_item(local_package_id,
                          IF res.tag = "Item" THEN res.item_id
                          ELSE [package |-> None, item |-> 0])
    IN IF r.panicked THEN Panicked("resolve_item_res")
       ELSE [op |-> "resolve_item_res", panicked |-> FALSE,
             item |-> r.item, item_id |-> r.item_id]

\* `match res { Res::Item(item_id) => .., _ => panic!("expected to find item") }`
resolve_item_res(local_package_id, res) ==
    IF res.tag = "Item"
    THEN LET r == resolve_item(local_package_id, res.item_id)
         IN IF r.panicked THEN Panicked("resolve_item_res")
            ELSE [op |-> "resolve_item_res", panicked |-> FALSE,
                  item |-> r.item, item_id |-> r.item_id]
    ELSE Panicked("resolve_item_res")

----------------------------------------------------------------------------
(* The standard library tests: run_stdlib_test(expr, expected) compiles the *)
(* expression as the entry of a user package against core and std and       *)
(* evaluates it.                                                            *)

MaxArg == 1000
TestArgs == (0 - MaxArg)..MaxArg
Callees == {"Microsoft.Quantum.Math.SignI", "Microsoft.Quantum.Math.AbsI"}

\* check_abs_i: the argument of each expression and the value looked for
check_abs_i ==
    {[arg |-> 0, expected |-> 0],
     [arg |-> 1000, expected |-> 1000],
     [arg |-> 0 - 1000, expected |-> 1000]}

\* Microsoft.Quantum.Math.SignI
SignI(a) == IF a < 0 THEN 0 - 1 ELSE IF a > 0 THEN 1 ELSE 0

\* faulty variant: the sign is kept
AbsIKeepsSign(a) == a

\* Microsoft.Quantum.Math.AbsI
AbsI(a) == IF a < 0 THEN 0 - a ELSE a

\* the index in the std package of the item a qualified name resolves to
StdIndex(callee) == IF callee = "Microsoft.Quantum.Math.SignI" THEN 0 ELSE 1

\* the evaluator, applying a resolved callable to an Int
Eval(item, a) ==
    IF item = LibItems("std")[StdIndex("Microsoft.Quantum.Math.SignI") + 1] THEN SignI(a)
    ELSE AbsI(a)

TestExprs == [callee : Callees, arg : TestArgs]

InitStdlib ==
    /\ args \in TestExprs
    /\ pc = "test_compile"
    /\ caller = "host"
    /\ package_store = <<>>
    /\ user_package_id = 0
    /\ errors = <<>>
    /\ kind = "None"
    /\ loc = LocInit
    /\ calls = <<>>
    /\ built = None
    /\ pre = None
    /\ seen = None
    /\ result = None

\* the expression is compiled against core and std; name resolution leaves
\* in the call an absolute reference to the item of the std package
TestCompile ==
    /\ pc = "test_compile"
    /\ LET r == StoreInsert(NewStdStore("Unrestricted"), EmptyUnit("Unrestricted"))
       IN /\ package_store' = r.store
          /\ user_package_id' = r.id
          /\ loc' = [LocInit EXCEPT !.store = r.store, !.package_id = r.id,
                                    !.ret = Some([package |-> Some(r.id - 1),
                                                  item |-> StdIndex(args.callee)])]
    /\ errors' = <<>>
    /\ pc' = "test_resolve"
    /\ UNCHANGED <<kind, caller, args, calls, built, pre, seen, result>>

\* the callee is resolved from the user package
TestResolve ==
    /\ pc = "test_resolve"
    /\ errors = <<>>
    /\ seen' = Some(resolve_item(user_package_id, loc.ret[1]))
    /\ pc' = "test_eval"
    /\ UNCHANGED <<package_store, user_package_id, errors, kind, caller, args, loc, calls,
                   built, pre, result>>

\* the call is evaluated
TestEval ==
    /\ pc = "test_eval"
    /\ ~seen[1].panicked
    /\ result' = Some([value |-> Eval(seen[1].item, args.arg)])
    /\ pc' = "test_done"
    /\ UNCHANGED <<package_store, user_package_id, errors, kind, caller, args, loc, calls,
                   built, pre, seen>>

NextStdlib == TestCompile \/ TestResolve \/ TestEval

SpecStdlib == InitStdlib /\ [][NextStdlib]_vars

----------------------------------------------------------------------------
(* Queries of a live session.  They read the session and change nothing *)
(* of it, so one query per behaviour shows all a query can return.        *)

QueryNames == {NameOf(i) : i \in 1..(MaxSources + 1)}

PositionQuery(name, position, encoding, overshoot) ==
    /\ Readable
    /\ result = None
    /\ result' = Some([q |-> <<name, position, encoding>>,
                       r |-> source_position_to_package_offset(name, position, encoding,
                                                               overshoot)])
    /\ UNCHANGED <<package_store, user_package_id, errors, kind, pc, caller, args, loc,
                   calls, built, pre, seen>>

SpanQuery(name) ==
    /\ Readable
    /\ result = None
    /\ result' = Some([q |-> <<name>>, r |-> package_span_of_source(name)])
    /\ UNCHANGED <<package_store, user_package_id, errors, kind, pc, caller, args, loc,
                   calls, built, pre, seen>>

ResolveQuery(local_package_id, item_id) ==
    /\ Readable
    /\ result = None
    /\ result' = Some([q |-> <<local_package_id, item_id>>,
                       r |-> resolve_item(local_package_id, item_id)])
    /\ UNCHANGED <<package_store, user_package_id, errors, kind, pc, caller, args, loc,
                   calls, built, pre, seen>>

ResolveResQuery(local_package_id, res) ==
    /\ Readable
    /\ result = None
    /\ result' = Some([q |-> <<local_package_id, res>>,
                       r |-> resolve_item_res(local_package_id, res)])
    /\ UNCHANGED <<package_store, user_package_id, errors, kind, pc, caller, args, loc,
                   calls, built, pre, seen>>

----------------------------------------------------------------------------
(* The session's life: construction, reads, recompiles *)

Construct ==
    \/ NewCompile \/ NewLint1 \/ NewInsert \/ NewFir \/ NewLint2 \/ NewReturn
    \/ NbInit \/ NbCell \/ NbIntoStore \/ NbLint \/ NbFir \/ NbReturn

Next ==
    \/ NewCompile \/ NewLint1 \/ NewInsert \/ NewFir \/ NewLint2 \/ NewReturn
    \/ NbInit \/ NbCell \/ NbIntoStore \/ NbLint \/ NbFir \/ NbReturn
    \/ \E pt \in PackageTypes, tp \in Profiles, lc \in LintConfigs : RecompileStart(pt, tp, lc)
    \/ RcStore \/ RcId \/ RcErrors
    \/ Observe

Spec == Init /\ [][Next]_vars

\* The constructors alone: every call of Compilation::new and of
\* Compilation::new_notebook a host can make, run to its return.  A call
\* runs on the thread that made it and is not suspended, so a step it can
\* take is taken.
NextBuild ==
    \/ NewCompile \/ NewLint1 \/ NewInsert \/ NewFir \/ NewLint2 \/ NewReturn
    \/ NbInit \/ NbCell \/ NbIntoStore \/ NbLint \/ NbFir \/ NbReturn

SpecBuild == Init /\ [][NextBuild]_vars /\ WF_vars(NextBuild)

\* the session can be read and no query has been made of it
CanQuery == Readable /\ result = None

\* A session built once and then queried.
InitQuery ==
    /\ Init
    /\ args.package_type = "Lib"
    /\ args.target_profile = "Unrestricted"
    /\ args.lints_config = "AllowAll"

NextQuery ==
    \/ NewCompile \/ NewLint1 \/ NewInsert \/ NewFir \/ NewLint2 \/ NewReturn
    \/ NbInit \/ NbCell \/ NbIntoStore \/ NbLint \/ NbFir \/ NbReturn
    \/ /\ CanQuery
       /\ \E n \in QueryNames, p \in Positions, e \in Encodings, o \in 0..MaxOvershoot :
             PositionQuery(n, p, e, o)
    \/ /\ CanQuery
       /\ \E n \in QueryNames : SpanQuery(n)
    \/ /\ CanQuery
       /\ \E l \in PackageIds, id \in ItemIds : ResolveQuery(l, id)
    \/ /\ CanQuery
       /\ \E l \in PackageIds, res \in Resolutions : ResolveResQuery(l, res)

SpecQuery == InitQuery /\ [][NextQuery]_vars

\* The lint and capability-pass steps of a construction, in order: which
\* component was called and what it reported.
RECURSIVE Steps(_)
Steps(log) ==
    IF log = <<>> THEN <<>>
    ELSE IF Head(log).op \in {"run_lints", "fir"}
    THEN <<[op |-> Head(log).op, out |-> Head(log).out]>> \o Steps(Tail(log))
    ELSE Steps(Tail(log))

\* what the front end reported to a construction, in order
RECURSIVE CompileReported(_)
CompileReported(log) ==
    IF log = <<>> THEN <<>>
    ELSE IF Head(log).op \in {"compile", "compile_fragments"}
    THEN Head(log).out \o CompileReported(Tail(log))
    ELSE CompileReported(Tail(log))

OtherKind(k) == IF k = "OpenProject" THEN "Notebook" ELSE "OpenProject"

\* The host, holding a session, builds a second one in the other mode from
\* the same sources, profile and lint configuration.
BuildOther ==
    /\ pc = "idle"
    /\ result = None
    /\ result' = Some([kind |-> kind, steps |-> Steps(calls),
                       compile_errors |-> CompileReported(calls), errors |-> errors])
    /\ args' = [args EXCEPT !.kind = OtherKind(kind)]
    /\ pc' = RecompilePath(OtherKind(kind))
    /\ calls' = <<>>
    /\ built' = None
    /\ pre' = None
    /\ UNCHANGED <<package_store, user_package_id, errors, kind, caller, loc, seen>>

NextPair ==
    \/ NewCompile \/ NewLint1 \/ NewInsert \/ NewFir \/ NewLint2 \/ NewReturn
    \/ NbInit \/ NbCell \/ NbIntoStore \/ NbLint \/ NbFir \/ NbReturn
    \/ BuildOther

\* both modes built from library sources, as a notebook's cells always are
InitPair == Init /\ args.package_type = "Lib"

SpecPair == InitPair /\ [][NextPair]_vars

----------------------------------------------------------------------------
(* Properties *)

IsPrefix(a, b) == Len(a) <= Len(b) /\ SubSeq(b, 1, Len(a)) = a

ConstructPcs == {"new_compile", "new_lint1", "new_insert", "new_fir", "new_lint2", "new_ret",
                 "nb_init", "nb_cell", "nb_lint", "nb_fir", "nb_ret"}

\* the constructor that `calls` describes has passed its call of run_fir_passes
AfterFir(k) ==
    /\ args.kind = k
    /\ pc \in {"new_lint2", "new_ret", "nb_ret", "rc_store", "rc_id", "rc_errors", "idle"}

FirCalls == {i \in DOMAIN calls : calls[i].op = "fir"}
LintCalls == {i \in DOMAIN calls : calls[i].op = "run_lints"}

\* everything the external components reported to the constructor, in order
Reported == Concat([i \in DOMAIN calls |-> calls[i].out])

\* C1 (as claimed): in a batch construction whose compile step returned no
\* errors, the lowering + capability pass is executed if and only if the
\* target profile is neither Base nor Unrestricted, and what it reports is
\* appended to the diagnostics list, the earlier diagnostics unchanged.
C1_PassRunsIffProfile ==
    (AfterFir("OpenProject") /\ calls[1].out = <<>>) =>
        /\ (FirCalls # {}) <=> (args.target_profile \notin {"Base", "Unrestricted"})
        /\ \A i \in FirCalls : calls[i].after = calls[i].before \o calls[i].out

\* C2 (as claimed): in batch and notebook construction, every invocation of
\* the lint engine happens with an empty diagnostics list, and appending its
\* findings keeps the earlier diagnostics, in order.
C2_LintsOnlyOnEmptyList ==
    \A i \in LintCalls :
        /\ calls[i].before = <<>>
        /\ IsPrefix(calls[i].before, calls[i].after)

\* the session's three replaced fields, as a reader finds them
Current == Some(Snapshot(package_store, user_package_id, errors))

\* C3: while recompile builds the replacement the session's fields are those
\* of the old snapshot, the replacement is complete before the first field
\* is written, and whatever a reader of the session reads is the old
\* snapshot or the new one, never a mixture.
C3_NoTornSnapshot ==
    /\ (Live /\ pc \notin {"rc_id", "rc_errors"}) => Current = pre
    /\ pc \in {"rc_store", "rc_id", "rc_errors"} => loc.ret # None
    /\ seen # None => (seen = pre \/ seen = loc.ret)

\* recompile is between its field writes, and the fields in memory are a
\* mixture of the old and the new snapshot
C3_Witness ==
    /\ pc = "rc_id"
    /\ Current # pre
    /\ Current # loc.ret
    /\ loc.ret[1].errors # errors

TagCount(store, tag) == Cardinality({i \in DOMAIN store : store[i].tag = tag})

\* C4: a live session's store holds exactly one core package, one standard
\* library package and one user package, and user_package_id is the
\* identifier of the user package in it (user_unit finds it).
C4_StoreShape ==
    Live =>
        /\ TagCount(package_store, "core") = 1
        /\ TagCount(package_store, "std") = 1
        /\ TagCount(package_store, "user") = 1
        /\ Len(package_store) = 3
        /\ user_unit # None
        /\ user_unit[1].tag = "user"

\* a notebook of zero cells, recompiled
C4_Witness ==
    /\ Live
    /\ pc = "idle"
    /\ kind = "Notebook"
    /\ built[1].by = "recompile"
    /\ user_unit[1].sources = <<>>

\* the cells of the notebook construction whose compilation reported errors
FailedCells == {i \in 1..Len(args.sources) : calls[i].out # <<>>}

\* C5: notebook construction compiles every cell, in input order, whatever
\* earlier cells reported; each cell's errors are appended to the list in
\* cell order and each cell is folded into the compiler before the next is
\* compiled.  With exactly one failing cell k the session's list is not
\* empty and the user package holds the items of every other cell.
C5_EveryCellCompiled ==
    (args.kind = "Notebook" /\ pc \notin {"nb_init", "panic"}) =>
        LET n == IF pc = "nb_cell" THEN loc.i - 1 ELSE Len(args.sources)
        IN /\ Len(calls) >= n
           /\ \A i \in 1..n :
                /\ calls[i].op = "compile_fragments"
                /\ calls[i].cell = args.sources[i].name
                /\ calls[i].folded = i - 1
                /\ calls[i].before = (IF i = 1 THEN <<>> ELSE calls[i - 1].after)
                /\ calls[i].after = calls[i].before \o calls[i].out
           /\ \A i \in (n + 1)..Len(calls) : calls[i].op # "compile_fragments"
           /\ (pc = "idle" /\ Cardinality(FailedCells) = 1) =>
                /\ errors # <<>>
                /\ \A j \in (1..n) \ FailedCells :
                      \E x \in DOMAIN user_unit[1].items : user_unit[1].items[x].decl = j

\* a notebook whose first cell failed and whose second cell was compiled
C5_Witness ==
    /\ Live
    /\ pc = "idle"
    /\ kind = "Notebook"
    /\ Len(args.sources) = 2
    /\ FailedCells = {1}
    /\ Len(user_unit[1].items) = 1

\* the result of the last query, when it is a returned (not aborted) call of op
Returned(op) == result # None /\ result[1].r.op = op /\ ~result[1].r.panicked

\* the source of the user package a returned query was about
QueriedSource == FindByName(user_unit[1].sources, result[1].r.source_name)[1]

\* C6: the offset source_position_to_package_offset returns for a document
\* of base offset B and byte length L is at most B + L, for every position
\* and encoding, and so lies before the slice of every following document.
C6_OffsetWithinDocument ==
    Returned("source_position_to_package_offset") =>
        /\ result[1].r.out <= QueriedSource.offset + ContentsLen(QueriedSource.contents)
        /\ \A i \in DOMAIN user_unit[1].sources :
              user_unit[1].sources[i].offset > QueriedSource.offset
                  => result[1].r.out < user_unit[1].sources[i].offset

\* a position past the end of a document that another document follows
C6_Witness ==
    /\ Returned("source_position_to_package_offset")
    /\ ~result[1].r.in_text
    /\ result[1].r.out = QueriedSource.offset + ContentsLen(QueriedSource.contents)
    /\ \E i \in DOMAIN user_unit[1].sources :
          user_unit[1].sources[i].offset > QueriedSource.offset

\* C7: for a position that lies in the document, the offset
\* source_position_to_package_offset returns is within the span
\* package_span_of_source returns for the same document.
C7_OffsetWithinSpan ==
    (Returned("source_position_to_package_offset") /\ result[1].r.in_text) =>
        LET span == package_span_of_source(result[1].r.source_name).out
        IN span.lo <= result[1].r.out /\ result[1].r.out <= span.hi

\* a position inside the second document
C7_Witness ==
    /\ Returned("source_position_to_package_offset")
    /\ result[1].r.in_text
    /\ QueriedSource.offset > 0
    /\ result[1].r.out > QueriedSource.offset
    /\ result[1].r.out < QueriedSource.offset + ContentsLen(QueriedSource.contents)

\* recompile was called with the configuration the session was built with
SameConfig ==
    /\ args.package_type = built[1].package_type
    /\ args.target_profile = built[1].target_profile
    /\ args.lints_config = built[1].lints_config

\* C8: a recompile with the configuration the session was built with leaves
\* the diagnostics list as it was: when recompile is about to write
\* self.errors, the new list equals the one it replaces.
C8_RecompileDeterministic ==
    (pc = "rc_errors" /\ SameConfig) => loc.ret[1].errors = errors

\* the second of two recompiles with one configuration, diagnostics present
C8_Witness ==
    /\ pc = "rc_errors"
    /\ SameConfig
    /\ built[1].by = "recompile"
    /\ errors # <<>>

\* C9: an absolute reference into the user package resolves, from every
\* originating package, to what the relative reference resolves to from
\* the user package.
C9_AbsoluteEqualsRelative ==
    Readable =>
        \A l \in PackageIds, i \in 0..MaxItem :
            /\ resolve_item(l, [package |-> Some(user_package_id), item |-> i])
                 = resolve_item(user_package_id, [package |-> None, item |-> i])
            /\ resolve_item(l, [package |-> Some(user_package_id), item |-> i])
                 = resolve_item_relative_to_user_package([package |-> None, item |-> i])

\* an absolute reference into the user package, resolved from another package
C9_Witness ==
    /\ Returned("resolve_item")
    /\ result[1].q[1] # user_package_id
    /\ result[1].q[2].package = Some(user_package_id)
    /\ result[1].r.item.package = "user"

\* no constructor has aborted, and a returned session lists every problem
\* the external components reported to its constructor
AllReportedListed ==
    /\ pc # "panic"
    /\ pc \in {"new_ret", "nb_ret"} => loc.errs = Reported
    /\ (Live /\ pc = "idle") => errors = Reported

\* C10: whatever the external components report for the user's code, the
\* constructor never aborts, it returns a session, and the session's
\* diagnostics list holds every problem they reported.
C10_ConstructionCompletes ==
    /\ []AllReportedListed
    /\ <>(Live /\ pc = "idle")

\* a notebook session returned with errors from both of its cells
C10_Witness ==
    /\ Live
    /\ pc = "idle"
    /\ kind = "Notebook"
    /\ Len(args.sources) = 2
    /\ FailedCells = {1, 2}
    /\ Len(errors) = 2

\* the last query was a call of one of the two position mapper operations
MapperQueried ==
    /\ Readable
    /\ result # None
    /\ result[1].r.op \in {"source_position_to_package_offset", "package_span_of_source"}

\* C11: source_position_to_package_offset and package_span_of_source abort
\* exactly when the document name is not in the user package's source map;
\* for a name that is present, a position whose conversion lands past the
\* end of the document is not a failure: the call returns the offset of the
\* end of that document.
C11_AbortsExactlyOnUnknownName ==
    MapperQueried =>
        LET source == FindByName(user_unit[1].sources, result[1].q[1])
        IN /\ result[1].r.panicked <=> (source = None)
           /\ (result[1].r.op = "source_position_to_package_offset" /\ source # None) =>
                 LET len == ContentsLen(source[1].contents)
                 IN /\ result[1].r.out <= source[1].offset + len
                    /\ result[1].r.converted > len =>
                          result[1].r.out = source[1].offset + len

\* a position converted to an offset past the end of the second document
C11_Witness ==
    /\ Returned("source_position_to_package_offset")
    /\ QueriedSource.offset > 0
    /\ result[1].r.converted > ContentsLen(QueriedSource.contents)
    /\ result[1].r.out = QueriedSource.offset + ContentsLen(QueriedSource.contents)

\* C12: an expression that calls Microsoft.Quantum.Math.AbsI compiles
\* without diagnostics, its callee is resolved from the user package into
\* the std package, and it evaluates to the absolute value of its argument:
\* the values check_abs_i looks for (0 for 0, 1000 for 1000 and for -1000).
C12_AbsIEvaluates ==
    (pc \in {"test_eval", "test_done"} /\ args.callee = "Microsoft.Quantum.Math.AbsI") =>
        /\ errors = <<>>
        /\ ~seen[1].panicked
        /\ seen[1].package.tag = "std"
        /\ seen[1].item_id.package # Some(user_package_id)
        /\ pc = "test_done" =>
              /\ result[1].value >= 0
              /\ result[1].value \in {args.arg, 0 - args.arg}
              /\ \A c \in check_abs_i : c.arg = args.arg => result[1].value = c.expected

\* AbsI(-1000) evaluated
C12_Witness ==
    /\ pc = "test_done"
    /\ args.callee = "Microsoft.Quantum.Math.AbsI"
    /\ args.arg = 0 - 1000
    /\ result[1].value = 1000

\* the constructor is about to call run_fir_passes
AtFir == pc \in {"new_fir", "nb_fir"}

\* C13: run_fir_passes lowers and checks the package only when the list it
\* is given is empty and the profile is neither Base nor Unrestricted;
\* otherwise it returns with the list unchanged; when the check runs and
\* reports nothing the list is unchanged; the given list is always a prefix
\* of the list it leaves, and a check that ran was given the empty list.
C13_PassFrame ==
    /\ AtFir =>
          LET r == run_fir_passes(loc.errs, args.target_profile, loc.store,
                                  loc.package_id, loc.unit)
          IN /\ r.ran <=> (loc.errs = <<>>
                           /\ args.target_profile \notin {"Base", "Unrestricted"})
             /\ ~r.ran => r.errors = loc.errs
             /\ (r.ran /\ r.out = <<>>) => r.errors = loc.errs
             /\ IsPrefix(loc.errs, r.errors)
    /\ \A i \in FirCalls :
          /\ calls[i].before = <<>>
          /\ args.target_profile \notin {"Base", "Unrestricted"}
          /\ IsPrefix(calls[i].before, calls[i].after)

\* the check ran in a notebook construction and reported a violation
C13_Witness ==
    /\ pc = "nb_ret"
    /\ FirCalls # {}
    /\ \A i \in FirCalls : calls[i].out # <<>> /\ calls[i].after = calls[i].out

\* both modes have been built from the same sources and configuration
PairBuilt == Live /\ pc = "idle" /\ result # None

\* the diagnostics of a list that lint or the capability pass produced
RECURSIVE LintAndPass(_)
LintAndPass(list) ==
    IF list = <<>> THEN <<>>
    ELSE IF Head(list).kind \in {"Lint", "Pass"}
    THEN <<Head(list)>> \o LintAndPass(Tail(list))
    ELSE LintAndPass(Tail(list))

\* C14 (as claimed): built from the same sources with the same profile and
\* the same outcomes of the external components, notebook construction
\* performs the same sequence of lint and capability-pass steps as batch
\* construction and its session lists the same lint and capability
\* diagnostics in the same order.
C14_NotebookStepsAsBatch ==
    (PairBuilt /\ result[1].compile_errors = CompileReported(calls)) =>
        /\ Steps(calls) = result[1].steps
        /\ LintAndPass(errors) = LintAndPass(result[1].errors)

\* the (name, text) pairs of the user package of a store, in order
SourcesOf(store, id) ==
    LET map == StoreGet(store, id)[1].sources
    IN [i \in DOMAIN map |-> [name |-> map[i].name, contents |-> map[i].contents]]

\* a session's mode and its user package's sources are those its first
\* constructor was given; a replacement that recompile has built has them too
SourcesKept ==
    /\ Live => kind = args.kind
    /\ (Live /\ pc \notin {"rc_id", "rc_errors"}) =>
          SourcesOf(package_store, user_package_id) = args.sources
    /\ pc \in {"rc_store", "rc_id", "rc_errors"} =>
          SourcesOf(loc.ret[1].package_store, loc.ret[1].user_package_id) = args.sources

\* recompile hands the constructor of the session's mode the sources of the
\* current user package, which are the original ones, and no step changes
\* the mode of a session
RecompileStep ==
    /\ args'.sources = args.sources
    /\ args'.kind = args.kind
    /\ kind # "None" => kind' = kind
    /\ (pc = "idle" /\ pc' \in ConstructPcs) =>
          /\ args'.sources = SourcesOf(package_store, user_package_id)
          /\ pc' = (IF kind = "OpenProject" THEN "new_compile" ELSE "nb_init")

\* C15: recompile rebuilds the session from exactly the current user
\* package's sources (names, texts, order), on the batch path for an
\* OpenProject session and the notebook path for a Notebook session, and
\* leaves the mode unchanged; after any sequence of recompiles the mode and
\* the ordered (name, text) sources are those of the original session.
C15_RecompileKeepsSources == []SourcesKept /\ [][RecompileStep]_vars

\* a notebook of two different cells, recompiled
C15_Witness ==
    /\ Live
    /\ pc = "idle"
    /\ kind = "Notebook"
    /\ built[1].by = "recompile"
    /\ Len(args.sources) = 2
    /\ args.sources[1] # args.sources[2]
    /\ SourcesOf(package_store, user_package_id) = args.sources

\* the identifiers a store has issued, and the one it issued for a package
Issued(store) == {i - 1 : i \in DOMAIN store}
IdOf(store, tag) == CHOOSE p \in Issued(store) : store[p + 1].tag = tag

\* recompile has built the replacement and not yet written a field
Rebuilt == pc = "rc_store"

ResolverQueried ==
    /\ Readable
    /\ result # None
    /\ result[1].r.op \in {"resolve_item", "resolve_item_res"}

\* C17: resolve_item aborts when the target package is not in the store or
\* the item index is not in the package; resolve_item_res aborts for every
\* resolution that is not an item; when the package and the item are
\* present both return that item, and no call changes the session.
C17_ResolverAborts ==
    ResolverQueried =>
        LET q      == result[1].q
            r      == result[1].r
            isItem == r.op = "resolve_item" \/ q[2].tag = "Item"
            ref    == IF r.op = "resolve_item" THEN q[2] ELSE q[2].item_id
            target == IF ref.package = None THEN q[1] ELSE ref.package[1]
            present ==
                /\ target + 1 \in DOMAIN package_store
                /\ ref.item + 1 \in DOMAIN package_store[target + 1].items
        IN /\ Current = pre
           /\ ~isItem => r.panicked
           /\ isItem =>
                /\ r.panicked <=> ~present
                /\ present => r.item = package_store[target + 1].items[ref.item + 1]

\* resolve_item_res has returned an item of the std package for a
\* reference found in the user package
C17_Witness ==
    /\ Returned("resolve_item_res")
    /\ result[1].q[1] = user_package_id
    /\ result[1].q[2].tag = "Item"
    /\ result[1].r.item.package = "std"
    /\ Current = pre

\* how often a diagnostic occurs in a list
Count(list, d) == Cardinality({i \in DOMAIN list : list[i] = d})

\* the findings the lint engine reported to the construction of the session
LintFindings == UNION {{calls[i].out[j] : j \in DOMAIN calls[i].out} : i \in LintCalls}

\* a constructor has returned the session that `calls` describes
Returns == Live /\ pc = "idle"

Has(list, k) == \E i \in DOMAIN list : list[i].kind = k

\* a list holds no capability violation next to a lint finding or a
\* compile error
PassAlone(list) == Has(list, "Pass") => (~Has(list, "Lint") /\ ~Has(list, "Compile"))

C20_ResolvedReferenceAbsolute ==
    Returned("resolve_item") =>
        LET r == result[1].r
        IN /\ r.item_id.package # None
           /\ StoreGet(package_store, r.item_id.package[1]) = Some(r.package)
           /\ r.item_id.item = result[1].q[2].item
           /\ \A l \in PackageIds : resolve_item(l, r.item_id) = r

\* a relative reference found in the std package, resolved
C20_Witness ==
    /\ Returned("resolve_item")
    /\ result[1].q[2].package = None
    /\ result[1].q[1] # user_package_id
    /\ result[1].r.item.package = "std"
    /\ result[1].r.item_id.package = Some(result[1].q[1])

====
